---- MODULE Spec2Model ----
(***************************************************************************)
(* Knowledge-base build and semantic retrieval of the creche chatbot.      *)
(*                                                                         *)
(*   scripts/process_documents.py  chunk_text, process_single_pdf,         *)
(*                                 create_document_embeddings,             *)
(*                                 save_knowledge_base,                    *)
(*                                 merge_knowledge_bases, main             *)
(*   app.py                        search_local_knowledge, chat            *)
(*                                                                         *)
(* Three specifications share the module:                                  *)
(*   Spec        the build runs of main() over the data_sources directory  *)
(*   SpecChunk   chunk_text, one loop iteration per step                   *)
(*   SpecSearch  search_local_knowledge and the context chat() builds      *)
(***************************************************************************)
EXTENDS Integers, Sequences, FiniteSets, TLC

VARIABLES
    \* ---- main and the files it works on (process_documents.py:299-340)
    sources,          \* data_sources/*.pdf: file name -> content, or NoFile
    kb,               \* knowledge_base/kb_*.json: name -> content, NoUnit or Broken
    output,           \* knowledge_base/vector_knowledge_base.json, the file app.py loads
    config,           \* config/sources.json: the sources it lists
    pc,               \* main: "idle", "loop", "done", "nopdf", "aborted"
    pending,          \* pdf_files not yet visited by the loop of lines 318-329
    runModel,         \* args.model of the current run
    outPath,          \* args.output of the current run: "default" or "unit"
    faults,           \* failed operations on knowledge_base/ and config/ files so far
    all_sources,      \* local of main
    merged,           \* whether the current run has reached lines 332-335
    embedCalls,       \* calls of create_document_embeddings in the current run
    cachedEmbedCalls, \* ... of them, on documents loaded from a persisted unit
    newFingerprints,  \* sources of the current run whose hash had no unit yet
    runs,             \* build runs started so far
    \* ---- chunk_text (process_documents.py:110-137)
    text,          \* argument: a sequence of characters
    chunk_size,    \* argument
    overlap,       \* argument
    words,         \* local: text.split()
    i,             \* local: window start
    chunks,        \* local / return value
    cpc,           \* position in chunk_text: "call", "loop", "done"
    \* ---- search_local_knowledge, chat (app.py:51-97, 240-268)
    knowledge_base,   \* module global loaded at start: [documents, model]
    query_embedding,  \* local of the last search: the encoded query
    top_k,            \* argument of the last search
    results,          \* value returned by the last search
    raised,           \* whether the last search ran its except branch (lines 95-97)
    context,          \* what chat() made of the results: "docs", "none"; "unset" outside chat
    spc,              \* "idle" between requests, "returned" when a search has returned
    \* ---- requests served on threads (app.py:59-97, 240-299, 313)
    loaded,           \* what load_knowledge_base returned at line 51
    req,              \* thread -> the locals of its call of search_local_knowledge
    answered          \* whether a request has been answered since the load

buildVars == <<sources, kb, output, config, pc, pending, runModel, outPath, faults,
               all_sources, merged, embedCalls, cachedEmbedCalls, newFingerprints, runs>>
chunkVars == <<text, chunk_size, overlap, words, i, chunks, cpc>>
searchVars == <<knowledge_base, query_embedding, top_k, results, raised, context, spc,
                loaded, req, answered>>

vars == <<buildVars, chunkVars, searchVars>>

-----------------------------------------------------------------------------
(* Bounds *)

MaxLen == 6         \* characters of a text
MaxChunkSize == 3   \* largest chunk_size argument
MaxOverlap == 3     \* largest overlap argument
MaxIter == 7        \* loop iterations of chunk_text that are explored
MaxDocs == 2        \* documents of a loaded knowledge base
MaxTopK == 2        \* largest top_k argument of a direct search (chat asks for ChatTopK)
MaxFaults == 1      \* failed reads and writes of the files the build keeps
MaxRuns == 2        \* build runs of one behaviour

-----------------------------------------------------------------------------
(* Python helpers *)

Min(a, b) == IF a <= b THEN a ELSE b
Max(a, b) == IF a >= b THEN a ELSE b

\* ceil(a / b) for b >= 1
CeilDiv(a, b) == (a + b - 1) \div b

\* s[a:b] of a Python list, negative indices counted from the end
PySlice(s, a, b) ==
    LET n  == Len(s)
        lo == IF a < 0 THEN Max(n + a, 0) ELSE Min(a, n)
        hi == IF b < 0 THEN Max(n + b, 0) ELSE Min(b, n)
    IN  IF lo >= hi THEN <<>> ELSE SubSeq(s, lo + 1, hi)

\* A text is a sequence of characters; " " stands for any whitespace character.
Chars == {" ", "a", "b"}
IsSpace(c) == c = " "

Texts == UNION {[1..n -> Chars] : n \in 0..MaxLen}

RECURSIVE lstrip(_)
lstrip(t) == IF t = <<>> THEN <<>>
             ELSE IF IsSpace(Head(t)) THEN lstrip(Tail(t)) ELSE t

RECURSIVE rstrip(_)
rstrip(t) == IF t = <<>> THEN <<>>
             ELSE IF IsSpace(t[Len(t)]) THEN rstrip(SubSeq(t, 1, Len(t) - 1)) ELSE t

\* str.strip()
strip(t) == rstrip(lstrip(t))

\* str.split(): the maximal runs of non-whitespace characters, in order.
\* cur is the word being read.
RECURSIVE SplitFrom(_, _)
SplitFrom(t, cur) ==
    IF t = <<>> THEN (IF cur = <<>> THEN <<>> ELSE <<cur>>)
    ELSE IF IsSpace(Head(t))
         THEN (IF cur = <<>> THEN <<>> ELSE <<cur>>) \o SplitFrom(Tail(t), <<>>)
         ELSE SplitFrom(Tail(t), Append(cur, Head(t)))

split(t) == SplitFrom(t, <<>>)

\* " ".join(ws)
RECURSIVE join(_)
join(ws) == IF ws = <<>> THEN <<>>
            ELSE IF Len(ws) = 1 THEN ws[1]
            ELSE ws[1] \o <<" ">> \o join(Tail(ws))

-----------------------------------------------------------------------------
(* The files of a build *)

Files == {"a.pdf", "b.pdf"}

\* A content stands for the bytes of a PDF: two different PDFs.  "none" is a
\* name that is not in data_sources.
Contents == {"pdf1", "pdf2"}
NoFile == "none"

NoUnit == [documents |-> <<>>, model |-> "NoUnit"]
NotWritten == [documents |-> <<>>, model |-> "NotWritten"]

\* line 235: open(.., 'w') empties the file before json.dump writes; a save
\* that fails after the open leaves a file that exists and is not JSON
Broken == [documents |-> <<>>, model |-> "Broken"]
BrokenConfig == <<"broken">>

\* lines 54-68: the md5 digest of the bytes; equal bytes give equal digests
get_file_hash(c) == <<"md5", c>>
Hashes == {get_file_hash(c) : c \in Contents}

\* line 301: --output is the default vector_knowledge_base.json, which the
\* glob of line 255 does not list, or a file knowledge_base/kb_merged.json,
\* which it lists.  (A path that is the kb_<hash>.json of a source, or one
\* outside knowledge_base, is not explored.)
OutPaths == {"default", "unit"}
MergedName == <<"kb", "merged">>
UnitNames == Hashes \cup {MergedName}

\* What a save of a file may do
SaveOutcomes == {"ok", "open fails", "write fails"}

\* The failed operations a step adds
Fault(ok) == IF ok THEN 0 ELSE 1

\* The state of the build part while another part is explored
BuildIdle ==
    /\ sources = [f \in Files |-> NoFile]
    /\ kb = [n \in UnitNames |-> NoUnit]
    /\ output = NotWritten
    /\ config = <<>>
    /\ pc = "idle"
    /\ pending = {}
    /\ runModel = "None"
    /\ outPath = "None"
    /\ faults = 0
    /\ all_sources = <<>>
    /\ merged = FALSE
    /\ embedCalls = 0
    /\ cachedEmbedCalls = 0
    /\ newFingerprints = 0
    /\ runs = 0

-----------------------------------------------------------------------------
(* chunk_text *)

\* line 129: the value returned for a text of at most chunk_size words
SingleChunk_Stripped(t) == <<strip(t)>>
SingleChunk(t) == <<t>>

\* line 135: the step of the window start
Stride_NoOverlap(cs, ov) == cs
Stride(cs, ov) == cs - ov

\* line 133: the window at i
Window(ws, k, cs) == join(PySlice(ws, k, k + cs))

\* The state of the other two parts while chunk_text is explored
\* app.py:313: app.run serves every request on a thread of its own; two
\* threads are followed
Threads == {"t1", "t2"}

\* The name doc_copy of lines 85-91 when it is not bound.  stored is 0 when
\* the name refers to a dict of its own and dict holds that dict.
NoDict == [stored |-> 0, dict |-> <<>>]

\* A thread that is not inside search_local_knowledge.  query and fails are
\* what the encoder makes of the query of the call and top_k its argument;
\* the other fields are the locals of lines 59-97, pos the place of the loop
\* of line 71 and j the place of the loop of line 85.
NoRequest ==
    [pc |-> "idle", query |-> <<>>, fails |-> FALSE, top_k |-> 0, pos |-> 0,
     similarities |-> <<>>, j |-> 0, doc_copy |-> NoDict, results |-> <<>>,
     raised |-> FALSE]

SearchIdle ==
    /\ knowledge_base = [documents |-> <<>>, model |-> "None"]
    /\ query_embedding = <<>>
    /\ top_k = 0
    /\ results = <<>>
    /\ raised = FALSE
    /\ context = "unset"
    /\ spc = "idle"
    /\ loaded = [documents |-> <<>>, model |-> "None"]
    /\ req = [t \in Threads |-> NoRequest]
    /\ answered = FALSE

InitChunk ==
    /\ BuildIdle
    /\ SearchIdle
    /\ text \in Texts
    /\ chunk_size \in 1..MaxChunkSize
    /\ overlap \in 0..MaxOverlap
    /\ words = <<>>
    /\ i = 0
    /\ chunks = <<>>
    /\ cpc = "call"

\* lines 122-131: the two early returns, else the loop is entered with i = 0
ChunkCall ==
    /\ cpc = "call"
    /\ IF strip(text) = <<>>
       THEN /\ chunks' = <<>>
            /\ words' = words
            /\ cpc' = "done"
       ELSE /\ words' = split(text)
            /\ IF Len(split(text)) <= chunk_size
               THEN chunks' = SingleChunk(text) /\ cpc' = "done"
               ELSE chunks' = <<>> /\ cpc' = "loop"
    /\ i' = 0
    /\ UNCHANGED <<text, chunk_size, overlap>>
    /\ UNCHANGED <<buildVars, searchVars>>

\* lines 132-135: one iteration of the while loop
ChunkLoop ==
    /\ cpc = "loop"
    /\ i < Len(words)
    /\ Len(chunks) < MaxIter
    /\ chunks' = Append(chunks, Window(words, i, chunk_size))
    /\ i' = i + Stride(chunk_size, overlap)
    /\ UNCHANGED <<text, chunk_size, overlap, words, cpc>>
    /\ UNCHANGED <<buildVars, searchVars>>

\* lines 132, 137: the loop condition fails, chunks is returned
ChunkReturn ==
    /\ cpc = "loop"
    /\ ~(i < Len(words))
    /\ cpc' = "done"
    /\ UNCHANGED <<text, chunk_size, overlap, words, i, chunks>>
    /\ UNCHANGED <<buildVars, searchVars>>

NextChunk == ChunkCall \/ ChunkLoop \/ ChunkReturn

SpecChunk == InitChunk /\ [][NextChunk]_vars

-----------------------------------------------------------------------------
(* search_local_knowledge and chat (app.py) *)

\* Embedding models; "None" is JSON null / Python None in a model field.
Models == {"m1", "m2"}
NoModel == "None"

\* The "embedding" entry of a stored document: the key may be absent, hold
\* null, or hold a list of numbers (possibly empty).
Absent == [kind |-> "absent", vec |-> <<>>]
Null == [kind |-> "null", vec |-> <<>>]
List(v) == [kind |-> "list", vec |-> v]

\* Vectors with whole-number norms, so that cosine similarities are exact:
\* scores are kept in hundredths.  A query may have another dimension than
\* the stored vectors, as when the encoder of the application is not the one
\* the base was embedded with.
Vecs == {<<0, 1>>, <<3, 4>>}
QueryVecs == {<<1, 0>>, <<3, 4>>, <<0, 0, 1>>}
EmbeddingValues == {Absent, Null, List(<<>>)} \cup {List(v) : v \in Vecs}

\* A stored document.  text, file_hash and metadata ride along like source
\* and chunk_id do and are left out.
Doc(f, c, e) == [source |-> f, chunk_id |-> c, embedding |-> e]

\* The (source, chunk_id) pairs of stored documents: two sources of up to two
\* chunks.  A base may hold a pair twice (the units of two contents of one
\* file name are merged together).
StoredKeys == Files \X (0..1)
StoredDocuments ==
    {Doc(key[1], key[2], e) : key \in StoredKeys, e \in EmbeddingValues}

\* line 73: if embedding:
Truthy(e) == e.kind = "list" /\ e.vec # <<>>

\* lines 33-51: what load_knowledge_base may return: whatever the JSON file
\* holds.  The model field is independent of the embeddings: a unit saved
\* after the encoder failed half-way has model null and embedded documents,
\* and a merge names the model of its first unit only.
KnowledgeBases ==
    UNION {{[documents |-> ds, model |-> m] :
               ds \in [1..n -> StoredDocuments], m \in {NoModel} \cup Models} :
           n \in 0..MaxDocs}

RECURSIVE Dot(_, _)
Dot(a, b) == IF a = <<>> THEN 0 ELSE Head(a) * Head(b) + Dot(Tail(a), Tail(b))

\* np.linalg.norm, exact on Vecs
Norm(a) == CHOOSE r \in 0..Dot(a, a) : r * r = Dot(a, a)

\* lines 75-78: cosine similarity, in hundredths
Cosine(q, e) == (100 * Dot(q, e)) \div (Norm(q) * Norm(e))

\* np.dot raises ValueError on vectors of different lengths
DotRaises(q, e) == Len(q) # Len(e)

\* A loop that scores a document without embedding as zero instead of
\* skipping it
Similarities_ZeroForMissing(docs, q) ==
    [j \in 1..Len(docs) |->
        [doc |-> docs[j], pos |-> j,
         score |-> IF Truthy(docs[j].embedding)
                   THEN Cosine(q, docs[j].embedding.vec) ELSE 0]]

\* lines 70-78: the (doc, score) pairs of the documents that have an
\* embedding, in the order of the base.  doc is a reference to the stored
\* document: pos is its place in knowledge_base["documents"].
Similarities(docs, q) ==
    LET embedded == SelectSeq([j \in 1..Len(docs) |-> j],
                              LAMBDA j : Truthy(docs[j].embedding))
    IN  [t \in 1..Len(embedded) |->
            [doc |-> docs[embedded[t]], pos |-> embedded[t],
             score |-> Cosine(q, docs[embedded[t]].embedding.vec)]]

\* Where x goes in a list sorted by descending score: after every entry whose
\* score is not smaller (list.sort is stable, also with reverse=True).
RECURSIVE InsertDesc_TiesFirst(_, _)
InsertDesc_TiesFirst(sorted, x) ==
    IF sorted = <<>> THEN <<x>>
    ELSE IF Head(sorted).score > x.score
         THEN <<Head(sorted)>> \o InsertDesc_TiesFirst(Tail(sorted), x)
         ELSE <<x>> \o sorted

RECURSIVE InsertDesc(_, _)
InsertDesc(sorted, x) ==
    IF sorted = <<>> THEN <<x>>
    ELSE IF Head(sorted).score >= x.score
         THEN <<Head(sorted)>> \o InsertDesc(Tail(sorted), x)
         ELSE <<x>> \o sorted

\* line 81: similarities.sort(key=lambda x: x[1], reverse=True)
RECURSIVE SortDesc(_)
SortDesc(sims) ==
    IF sims = <<>> THEN <<>>
    ELSE InsertDesc(SortDesc(SubSeq(sims, 1, Len(sims) - 1)), sims[Len(sims)])

\* lines 86-91: the copy that leaves the engine: a score added, the embedding
\* key deleted
ResultOf(sim) ==
    [source |-> sim.doc.source, chunk_id |-> sim.doc.chunk_id, score |-> sim.score]

\* lines 84-91: results for similarities[:top_k]
TopResults(sims, k) ==
    LET top == PySlice(sims, 0, k)
    IN  [j \in 1..Len(top) |-> ResultOf(top[j])]

\* line 86 written doc_copy = doc: the name refers to the stored document
\* itself, the one at place pos of knowledge_base["documents"]
DictCopy_Alias(doc, pos) == [stored |-> pos, dict |-> doc]

\* line 86: doc.copy() makes a new dict that holds the items of doc; the name
\* doc_copy refers to it and to no stored document
DictCopy(doc, pos) == [stored |-> 0, dict |-> doc]

\* line 87: d["score"] = score
WithScore(d, score) ==
    [source |-> d.source, chunk_id |-> d.chunk_id, embedding |-> d.embedding,
     score |-> score]

\* lines 89-90: if "embedding" in d: del d["embedding"]
WithoutEmbedding(d) == [d EXCEPT !.embedding = Absent]

\* line 91: the dict appended to results, with the keys it has by then
AsResult(d) ==
    IF d.embedding = Absent
    THEN [source |-> d.source, chunk_id |-> d.chunk_id, score |-> d.score]
    ELSE [source |-> d.source, chunk_id |-> d.chunk_id,
          embedding |-> d.embedding, score |-> d.score]

\* lines 86-90: what the stored document at place pos is once its result was
\* built: lines 87-90 write to the dict that doc_copy refers to
StoredAfterResult(doc, pos, score) ==
    IF DictCopy(doc, pos).stored = pos
    THEN WithoutEmbedding(WithScore(doc, score))
    ELSE doc

\* lines 84-91: the stored documents after the loop over similarities[:top_k]
DocumentsAfterResults(docs, sims, k) ==
    LET top == PySlice(sims, 0, k)
    IN  [j \in 1..Len(docs) |->
            IF \E t \in 1..Len(top) : top[t].pos = j
            THEN StoredAfterResult(docs[j], j,
                     top[CHOOSE t \in 1..Len(top) : top[t].pos = j].score)
            ELSE docs[j]]

\* Whether the try block of lines 65-94 raises: the encoder fails, or np.dot
\* meets a stored vector of another length.
SearchRaises(docs, q, encodeFails) ==
    \/ encodeFails
    \/ \E j \in 1..Len(docs) :
           Truthy(docs[j].embedding) /\ DotRaises(q, docs[j].embedding.vec)

\* lines 59-97: the value search_local_knowledge returns
SearchReturn(docs, q, k, encodeFails) ==
    IF docs = <<>> THEN <<>>
    ELSE IF SearchRaises(docs, q, encodeFails) THEN <<>>
    ELSE TopResults(SortDesc(Similarities(docs, q)), k)

\* lines 59-97: knowledge_base["documents"] when search_local_knowledge returns
DocumentsAfterSearch(docs, q, k, encodeFails) ==
    IF docs = <<>> THEN docs
    ELSE IF SearchRaises(docs, q, encodeFails) THEN docs
    ELSE DocumentsAfterResults(docs, SortDesc(Similarities(docs, q)), k)

\* line 255: chat() asks for three documents
ChatTopK == 3

\* The state of the chunk_text part while the search is explored
ChunkIdle ==
    /\ text = <<>>
    /\ chunk_size = 1
    /\ overlap = 0
    /\ words = <<>>
    /\ i = 0
    /\ chunks = <<>>
    /\ cpc = "call"

\* app.py:51: the knowledge base as loaded; nothing searched yet
InitSearch ==
    /\ BuildIdle
    /\ ChunkIdle
    /\ knowledge_base \in KnowledgeBases
    /\ query_embedding = <<>>
    /\ top_k = 0
    /\ results = <<>>
    /\ raised = FALSE
    /\ context = "unset"
    /\ spc = "idle"
    /\ loaded = knowledge_base
    /\ req = [t \in Threads |-> NoRequest]
    /\ answered = FALSE

\* search_local_knowledge(query, top_k): q is what the encoder makes of the
\* query when it does not fail
SearchCall(q, k, encodeFails) ==
    LET docs == knowledge_base.documents
    IN  /\ query_embedding' = IF docs = <<>> \/ encodeFails THEN <<>> ELSE q
        /\ top_k' = k
        /\ raised' = (docs # <<>> /\ SearchRaises(docs, q, encodeFails))
        /\ results' = SearchReturn(docs, q, k, encodeFails)
        /\ spc' = "returned"
        /\ knowledge_base' = [knowledge_base EXCEPT
                                  !.documents = DocumentsAfterSearch(docs, q, k, encodeFails)]
        /\ UNCHANGED <<loaded, req, answered>>
        /\ UNCHANGED <<buildVars, chunkVars>>

Search ==
    /\ spc = "idle"
    /\ \E q \in QueryVecs, k \in 0..MaxTopK, encodeFails \in BOOLEAN :
           /\ SearchCall(q, k, encodeFails)
           /\ context' = "unset"

\* lines 253-268 of chat(), for a non-empty message: the search, then the
\* context built from what it returned
Chat ==
    /\ spc = "idle"
    /\ \E q \in QueryVecs, encodeFails \in BOOLEAN :
           /\ SearchCall(q, ChatTopK, encodeFails)
           /\ context' = IF results' # <<>> THEN "docs" ELSE "none"

\* lines 270-299: the request is answered and the locals of the call are gone;
\* the next request finds the knowledge base as this one left it
EndRequest ==
    /\ spc = "returned"
    /\ query_embedding' = <<>>
    /\ top_k' = 0
    /\ results' = <<>>
    /\ raised' = FALSE
    /\ context' = "unset"
    /\ spc' = "idle"
    /\ UNCHANGED <<knowledge_base, loaded, req, answered>>
    /\ UNCHANGED <<buildVars, chunkVars>>

NextSearch == Search \/ Chat \/ EndRequest

SpecSearch == InitSearch /\ [][NextSearch]_vars

-----------------------------------------------------------------------------
(* Requests served concurrently (app.py:59-97 on the threads of app.run)    *)

\* lines 33-51: the bases the threads are followed on: the chunks of one
\* source, each with any embedding entry, named by a model when one is
\* embedded
ServedBases ==
    UNION {{[documents |-> [k \in 1..n |-> Doc("a.pdf", k - 1, es[k])],
             model |-> IF \E k \in 1..n : Truthy(es[k]) THEN "m1" ELSE NoModel] :
               es \in [1..n -> EmbeddingValues]} :
           n \in 0..MaxDocs}

\* The dict the name doc_copy of a thread refers to: its own, or the stored
\* document it is an alias of
Deref(c) == IF c.stored = 0 THEN c.dict ELSE knowledge_base.documents[c.stored]

\* lines 95-97 and 93-94: the call returns value; its locals are gone
Returned(r, value, exc) ==
    [NoRequest EXCEPT !.pc = "done", !.query = r.query, !.fails = r.fails,
                      !.top_k = r.top_k, !.results = value, !.raised = exc]

\* app.py:51: the base is loaded, no request has arrived
InitServe ==
    /\ BuildIdle
    /\ ChunkIdle
    /\ knowledge_base \in ServedBases
    /\ loaded = knowledge_base
    /\ query_embedding = <<>>
    /\ top_k = 0
    /\ results = <<>>
    /\ raised = FALSE
    /\ context = "unset"
    /\ spc = "idle"
    /\ req = [t \in Threads |-> NoRequest]
    /\ answered = FALSE

\* lines 59-67: search_local_knowledge is called on thread t, by chat()
\* (line 255) or with another top_k; the base is tested for documents and the
\* query encoded
ServeCall(t) ==
    /\ req[t].pc = "idle"
    /\ \E q \in QueryVecs, k \in (1..MaxTopK) \cup {ChatTopK}, encodeFails \in BOOLEAN :
           LET r == [NoRequest EXCEPT !.query = q, !.fails = encodeFails, !.top_k = k]
           IN  req' = [req EXCEPT ![t] =
                           IF knowledge_base.documents = <<>>
                           THEN Returned(r, <<>>, FALSE)
                           ELSE IF encodeFails
                                THEN Returned(r, <<>>, TRUE)
                                ELSE [r EXCEPT !.pc = "score", !.pos = 1]]
    /\ UNCHANGED <<knowledge_base, loaded, answered>>
    /\ UNCHANGED <<query_embedding, top_k, results, raised, context, spc>>
    /\ UNCHANGED <<buildVars, chunkVars>>

\* lines 71-78: one iteration of the loop over the stored documents; after
\* the last one, the sort of line 81
ServeScore(t) ==
    LET r == req[t]
        doc == knowledge_base.documents[r.pos]
        embedding == doc.embedding
        similarities ==
            IF Truthy(embedding)
            THEN Append(r.similarities,
                        [pos |-> r.pos, score |-> Cosine(r.query, embedding.vec)])
            ELSE r.similarities
    IN  /\ r.pc = "score"
        /\ req' = [req EXCEPT ![t] =
                       IF Truthy(embedding) /\ DotRaises(r.query, embedding.vec)
                       THEN Returned(r, <<>>, TRUE)
                       ELSE IF r.pos < Len(knowledge_base.documents)
                            THEN [r EXCEPT !.similarities = similarities,
                                           !.pos = r.pos + 1]
                            ELSE IF PySlice(similarities, 0, r.top_k) = <<>>
                                 THEN Returned(r, <<>>, FALSE)
                                 ELSE [r EXCEPT !.pc = "copy", !.pos = 0, !.j = 1,
                                                !.similarities = SortDesc(similarities)]]
        /\ UNCHANGED <<knowledge_base, loaded, answered>>
        /\ UNCHANGED <<query_embedding, top_k, results, raised, context, spc>>
        /\ UNCHANGED <<buildVars, chunkVars>>

\* lines 85-86: the next of similarities[:top_k]; doc_copy = doc.copy()
ServeCopy(t) ==
    LET r == req[t]
        pos == r.similarities[r.j].pos
    IN  /\ r.pc = "copy"
        /\ req' = [req EXCEPT ![t] =
                       [r EXCEPT !.pc = "set",
                                 !.doc_copy = DictCopy(knowledge_base.documents[pos], pos)]]
        /\ UNCHANGED <<knowledge_base, loaded, answered>>
        /\ UNCHANGED <<query_embedding, top_k, results, raised, context, spc>>
        /\ UNCHANGED <<buildVars, chunkVars>>

\* line 87: doc_copy["score"] = score, written to the dict the name refers to
ServeSetScore(t) ==
    LET r == req[t]
        score == r.similarities[r.j].score
        c == r.doc_copy
    IN  /\ r.pc = "set"
        /\ IF c.stored = 0
           THEN /\ req' = [req EXCEPT ![t] =
                               [r EXCEPT !.pc = "del",
                                         !.doc_copy.dict = WithScore(c.dict, score)]]
                /\ UNCHANGED knowledge_base
           ELSE /\ req' = [req EXCEPT ![t] = [r EXCEPT !.pc = "del"]]
                /\ knowledge_base' =
                       [knowledge_base EXCEPT
                            !.documents[c.stored] = WithScore(@, score)]
        /\ UNCHANGED <<loaded, answered>>
        /\ UNCHANGED <<query_embedding, top_k, results, raised, context, spc>>
        /\ UNCHANGED <<buildVars, chunkVars>>

\* lines 89-91: the embedding key is deleted from the dict doc_copy refers to
\* and the dict appended to results; after the last of similarities[:top_k]
\* the call returns results (lines 93-94)
ServeDelete(t) ==
    LET r == req[t]
        c == r.doc_copy
        value == Append(r.results, AsResult(WithoutEmbedding(Deref(c))))
    IN  /\ r.pc = "del"
        /\ req' = [req EXCEPT ![t] =
                       IF r.j < Len(PySlice(r.similarities, 0, r.top_k))
                       THEN [r EXCEPT !.pc = "copy", !.j = r.j + 1,
                                      !.doc_copy = NoDict, !.results = value]
                       ELSE Returned(r, value, FALSE)]
        /\ IF c.stored = 0
           THEN UNCHANGED knowledge_base
           ELSE knowledge_base' =
                    [knowledge_base EXCEPT
                         !.documents[c.stored] = WithoutEmbedding(@)]
        /\ UNCHANGED <<loaded, answered>>
        /\ UNCHANGED <<query_embedding, top_k, results, raised, context, spc>>
        /\ UNCHANGED <<buildVars, chunkVars>>

\* lines 258-299: the caller answers with what the search returned; the thread
\* is free for the next request
ServeAnswer(t) ==
    /\ req[t].pc = "done"
    /\ req' = [req EXCEPT ![t] = NoRequest]
    /\ answered' = TRUE
    /\ UNCHANGED <<knowledge_base, loaded>>
    /\ UNCHANGED <<query_embedding, top_k, results, raised, context, spc>>
    /\ UNCHANGED <<buildVars, chunkVars>>

NextServe ==
    \E t \in Threads :
        \/ ServeCall(t)
        \/ ServeScore(t)
        \/ ServeCopy(t)
        \/ ServeSetScore(t)
        \/ ServeDelete(t)
        \/ ServeAnswer(t)

SpecServe == InitServe /\ [][NextServe]_vars

-----------------------------------------------------------------------------
(* The build: process_single_pdf, create_document_embeddings,               *)
(* save_knowledge_base, merge_knowledge_bases, main                         *)

\* lines 164-171: the number of chunks chunk_text makes of the text of a
\* content
NumChunks(c) == IF c = "pdf1" THEN 1 ELSE 2

\* SentenceTransformer(model_name).encode: the vector of a model; the two
\* models give different vectors
Encode(m) == IF m = "m1" THEN <<3, 4>> ELSE <<0, 1>>

\* The model whose encoder made a stored vector
EmbeddedBy(e) == CHOOSE m \in Models : e.vec = Encode(m)

\* lines 173-185: the documents of a source that has no unit yet; they have
\* no "embedding" key
NewDocuments(f, c) ==
    [k \in 1..NumChunks(c) |->
        [source |-> f, chunk_id |-> k - 1, file_hash |-> get_file_hash(c),
         embedding |-> Absent]]

\* lines 153-191: what process_single_pdf returns once the file was hashed.
\* A unit that exists is read (lines 158-162): readOk is whether open succeeds,
\* and a file that is not JSON makes json.load raise; both end in the except
\* of lines 189-191.  Without a unit, extractOk is whether
\* extract_text_from_pdf finds any text and nothing in lines 164-185 raises.
ProcessSinglePdf(f, c, extractOk, readOk) ==
    IF kb[get_file_hash(c)] # NoUnit
    THEN IF readOk /\ kb[get_file_hash(c)] # Broken
         THEN kb[get_file_hash(c)].documents
         ELSE <<>>
    ELSE IF extractOk THEN NewDocuments(f, c) ELSE <<>>

\* lines 204-224: an empty list comes back with model None (lines 204-206);
\* otherwise the encoder serves the first okUpTo documents (in place) and
\* raises on the next one, or on loading the model when okUpTo = 0;
\* okUpTo = Len(documents) is the call that succeeds
create_document_embeddings(documents, model_name, okUpTo) ==
    [documents |->
        [k \in 1..Len(documents) |->
            IF k <= okUpTo
            THEN [documents[k] EXCEPT !.embedding = List(Encode(model_name))]
            ELSE documents[k]],
     model |-> IF documents # <<>> /\ okUpTo = Len(documents)
               THEN model_name ELSE NoModel]

\* lines 234-240: save_knowledge_base(content, path) as seen in the file at
\* path, which held old
save_knowledge_base(content, old, outcome) ==
    CASE outcome = "ok" -> content
      [] outcome = "open fails" -> old
      [] outcome = "write fails" -> Broken

\* The orders in which glob("kb_*.json") may list the units
Orders(S) == {o \in [1..Cardinality(S) -> S] : \A h \in S : \E k \in DOMAIN o : o[k] = h}

RECURSIVE ConcatDocuments(_)
ConcatDocuments(units) ==
    IF units = <<>> THEN <<>>
    ELSE Head(units).documents \o ConcatDocuments(Tail(units))

\* lines 268-269: the model of the first unit that names one
RECURSIVE FirstModel(_)
FirstModel(units) ==
    IF units = <<>> THEN NoModel
    ELSE IF Head(units).model # NoModel THEN Head(units).model
    ELSE FirstModel(Tail(units))

\* The files of knowledge_base that the glob of line 255 lists
UnitFiles == {n \in UnitNames : kb[n] # NoUnit}

\* lines 251-274: merge_knowledge_bases over the files listed in order o;
\* readable are those that open succeeds on.  A file that cannot be opened
\* or is not JSON is skipped (lines 270-271).
merge_knowledge_bases(o, readable) ==
    LET names == SelectSeq(o, LAMBDA n : n \in readable /\ kb[n] # Broken)
        units == [k \in DOMAIN names |-> kb[names[k]]]
    IN  [documents |-> ConcatDocuments(units), model |-> FirstModel(units)]

\* The directory before the first run: some PDFs, no unit, nothing merged
Init ==
    /\ ChunkIdle
    /\ SearchIdle
    /\ sources \in [Files -> {NoFile} \cup Contents]
    /\ kb = [n \in UnitNames |-> NoUnit]
    /\ output = NotWritten
    /\ config = <<>>
    /\ pc = "idle"
    /\ pending = {}
    /\ runModel = "None"
    /\ outPath = "None"
    /\ faults = 0
    /\ all_sources = <<>>
    /\ merged = FALSE
    /\ embedCalls = 0
    /\ cachedEmbedCalls = 0
    /\ newFingerprints = 0
    /\ runs = 0

NotRunning == pc # "loop"

\* Between runs a PDF is added, replaced or removed; the process of the last
\* run is gone, and its locals with it
EditSources ==
    /\ NotRunning
    /\ runs < MaxRuns
    /\ \E f \in Files, c \in {NoFile} \cup Contents :
           /\ sources[f] # c
           /\ sources' = [sources EXCEPT ![f] = c]
    /\ pc' = "idle"
    /\ pending' = {}
    /\ runModel' = "None"
    /\ outPath' = "None"
    /\ all_sources' = <<>>
    /\ merged' = FALSE
    /\ embedCalls' = 0
    /\ cachedEmbedCalls' = 0
    /\ newFingerprints' = 0
    /\ UNCHANGED <<kb, output, config, faults, runs>>
    /\ UNCHANGED <<chunkVars, searchVars>>

\* lines 299-317: main starts with --model m and --output p; without any PDF
\* it returns at line 312
StartRun ==
    /\ NotRunning
    /\ runs < MaxRuns
    /\ \E m \in Models : runModel' = m
    /\ \E p \in OutPaths : outPath' = p
    /\ runs' = runs + 1
    /\ pending' = {f \in Files : sources[f] # NoFile}
    /\ pc' = IF pending' = {} THEN "nopdf" ELSE "loop"
    /\ all_sources' = <<>>
    /\ merged' = FALSE
    /\ embedCalls' = 0
    /\ cachedEmbedCalls' = 0
    /\ newFingerprints' = 0
    /\ UNCHANGED <<sources, kb, output, config, faults>>
    /\ UNCHANGED <<chunkVars, searchVars>>

\* line 151: get_file_hash raises (the file cannot be opened or read); the call
\* stands outside the try of process_single_pdf and main catches nothing, so
\* the exception ends the run
HashFails ==
    /\ pc = "loop"
    /\ \E f \in pending :
           /\ pending' = pending \ {f}
           /\ pc' = "aborted"
    /\ UNCHANGED <<sources, kb, output, config, runModel, outPath, faults, all_sources,
                   merged, embedCalls, cachedEmbedCalls, newFingerprints, runs>>
    /\ UNCHANGED <<chunkVars, searchVars>>

\* lines 318-329: one iteration of the loop of main, for a file that can be
\* hashed
ProcessSource ==
    /\ pc = "loop"
    /\ \E f \in pending, extractOk \in BOOLEAN, readOk \in BOOLEAN :
        LET c == sources[f]
            h == get_file_hash(c)
            cached == kb[h] # NoUnit
            documents == ProcessSinglePdf(f, c, extractOk, readOk)
        IN  /\ pending' = pending \ {f}
            /\ newFingerprints' = IF cached THEN newFingerprints ELSE newFingerprints + 1
            /\ IF documents = <<>>
               THEN /\ faults + Fault(cached => readOk) <= MaxFaults
                    /\ faults' = faults + Fault(cached => readOk)
                    /\ UNCHANGED <<kb, all_sources, embedCalls, cachedEmbedCalls>>
               ELSE /\ \E okUpTo \in 0..Len(documents), outcome \in SaveOutcomes :
                          LET file_hash == documents[1].file_hash
                              embedded_docs ==
                                  create_document_embeddings(documents, runModel, okUpTo)
                          IN  /\ faults + Fault(outcome = "ok") <= MaxFaults
                              /\ kb' = [kb EXCEPT ![file_hash] =
                                           save_knowledge_base(embedded_docs, kb[file_hash],
                                                               outcome)]
                              /\ faults' = faults + Fault(outcome = "ok")
                    /\ all_sources' = Append(all_sources, f)
                    /\ embedCalls' = embedCalls + 1
                    /\ cachedEmbedCalls' = IF cached THEN cachedEmbedCalls + 1
                                           ELSE cachedEmbedCalls
    /\ UNCHANGED <<sources, output, config, pc, runModel, outPath, merged, runs>>
    /\ UNCHANGED <<chunkVars, searchVars>>

\* lines 276-297: update_config_with_sources as seen in config/sources.json;
\* a failure is logged (lines 296-297) and main goes on
update_config_with_sources(srcs, old, outcome) ==
    CASE outcome = "ok" -> srcs
      [] outcome = "open fails" -> old
      [] outcome = "write fails" -> BrokenConfig

\* lines 331-340: the files of knowledge_base are merged, the merge is saved
\* to --output and the configuration is rewritten; a failure of either write
\* is only logged
FinishRun ==
    /\ pc = "loop"
    /\ pending = {}
    /\ \E readable \in SUBSET UnitFiles, outcome \in SaveOutcomes,
          cfgOutcome \in SaveOutcomes :
           LET failed == Cardinality(UnitFiles \ readable)
                             + Fault(outcome = "ok") + Fault(cfgOutcome = "ok")
           IN  /\ faults + failed <= MaxFaults
               /\ faults' = faults + failed
               /\ config' = update_config_with_sources(all_sources, config, cfgOutcome)
               /\ \E o \in Orders(UnitFiles) :
                      LET merged_kb == merge_knowledge_bases(o, readable)
                      IN  IF outPath = "default"
                          THEN /\ output' = save_knowledge_base(merged_kb, output, outcome)
                               /\ kb' = kb
                          ELSE /\ kb' = [kb EXCEPT ![MergedName] =
                                             save_knowledge_base(merged_kb, kb[MergedName],
                                                                 outcome)]
                               /\ output' = output
    /\ merged' = TRUE
    /\ pc' = "done"
    /\ UNCHANGED <<sources, pending, runModel, outPath, all_sources,
                   embedCalls, cachedEmbedCalls, newFingerprints, runs>>
    /\ UNCHANGED <<chunkVars, searchVars>>

Next == EditSources \/ StartRun \/ HashFails \/ ProcessSource \/ FinishRun

Spec == Init /\ [][Next]_vars

-----------------------------------------------------------------------------
(* Claims about the build (checked under Spec) *)

Written == output # NotWritten

\* C1: in a build run the embedding step is never invoked for a source whose
\* fingerprint already has a persisted unit, so the invocations of a run never
\* outnumber its sources with a new fingerprint.
C1_NoReembedding ==
    /\ cachedEmbedCalls = 0
    /\ embedCalls <= newFingerprints

\* C2: the merged knowledge base never combines units built under different
\* embedding models: embedded chunks of two units in it were embedded by the
\* same model.
C2_OneModelInMerge ==
    Written =>
        \A k, l \in 1..Len(output.documents) :
            LET d == output.documents[k]
                e == output.documents[l]
            IN  (d.file_hash # e.file_hash /\ Truthy(d.embedding) /\ Truthy(e.embedding))
                    => EmbeddedBy(d.embedding) = EmbeddedBy(e.embedding)

\* C3: no two documents of the merged knowledge base have the same
\* (source, chunk_id) pair.
C3_UniqueChunkKeys ==
    Written =>
        \A k, l \in 1..Len(output.documents) :
            k # l => <<output.documents[k].source, output.documents[k].chunk_id>>
                       # <<output.documents[l].source, output.documents[l].chunk_id>>

\* C4: a persisted unit is never mutated in place: once kb_<hash>.json is
\* written, no later step changes its documents, embeddings or model.
C4_UnitsImmutable ==
    [][\A h \in Hashes : kb[h] # NoUnit => kb'[h] = kb[h]]_vars

\* C6: a failure on one source never aborts the batch: a run that has ended
\* has visited every source and has merged and written the knowledge base.
C6_BatchNeverAborts ==
    pc \in {"done", "aborted"} => (pending = {} /\ merged)

\* C11: a build run that finds no source document writes a served knowledge
\* base that holds a single placeholder chunk ("no documents available"), a
\* chunk of no source file.
C11_PlaceholderOnEmpty ==
    pc = "nopdf" =>
        /\ Written
        /\ Len(output.documents) = 1
        /\ output.documents[1].source \notin Files

\* Every document of S that carries an embedding was embedded by the model
\* that S names
ModelNamesEmbeddings(S) ==
    \A k \in 1..Len(S.documents) :
        Truthy(S.documents[k].embedding)
            => (S.model # NoModel /\ EmbeddedBy(S.documents[k].embedding) = S.model)

\* C12: in every persisted unit and in the merged knowledge base the model
\* field is null only if no document carries an embedding, and otherwise
\* names the model that produced the embeddings.
C12_ModelFieldSound ==
    /\ \A h \in Hashes : kb[h] # NoUnit => ModelNamesEmbeddings(kb[h])
    /\ Written => ModelNamesEmbeddings(output)

-----------------------------------------------------------------------------
(* Claims about search_local_knowledge (checked under SpecSearch) *)

Documents == knowledge_base.documents

Embedded == {k \in 1..Len(Documents) : Truthy(Documents[k].embedding)}

ScoreOf(k) == Cosine(query_embedding, Documents[k].embedding.vec)

\* k ranks before l: a higher score, or the same score and earlier in the base
RanksBefore(k, l) ==
    \/ ScoreOf(k) > ScoreOf(l)
    \/ (ScoreOf(k) = ScoreOf(l) /\ k < l)

Succeeded == spc = "returned" /\ ~raised /\ Documents # <<>>

\* The embedded chunk that ranks j-th
Nth(j) == CHOOSE k \in Embedded : Cardinality({l \in Embedded : RanksBefore(l, k)}) = j - 1

\* What a result for the stored document k is: the document without its
\* embedding, with its score
Copy(k) ==
    [source |-> Documents[k].source, chunk_id |-> Documents[k].chunk_id,
     score |-> ScoreOf(k)]

\* C5: a search that fails on a non-empty knowledge base is surfaced to the
\* caller as something other than the empty list of "nothing relevant found",
\* and chat() does not build the "no relevant document" context from it.
C5_FailureSurfaced ==
    (spc = "returned" /\ raised /\ Documents # <<>>)
        => (results # <<>> /\ context # "none")

\* C10: a successful search returns exactly the first top_k embedded chunks in
\* the order of descending cosine similarity, equal scores in knowledge-base
\* order: at most top_k entries, non-increasing scores, ties in base order.
C10_TopKRanking ==
    Succeeded =>
        /\ Len(results) = Min(top_k, Cardinality(Embedded))
        /\ \A j \in 1..Len(results) : results[j] = Copy(Nth(j))
        /\ \A j, l \in 1..Len(results) :
               j < l => results[j].score >= results[l].score

\* C10 witness: a successful search over two embedded chunks with the same
\* score and different sources, cut to one result: the chunk that comes
\* first in the base.
C10_Witness ==
    /\ Succeeded
    /\ Cardinality(Embedded) = 2
    /\ ScoreOf(1) = ScoreOf(2)
    /\ Documents[1].source # Documents[2].source
    /\ top_k = 1
    /\ results = <<Copy(1)>>

\* C13: requests served on concurrent threads, one after another or
\* interleaved step by step, leave the loaded knowledge base as it was at
\* load time: every stored document keeps its embedding and gains no score.
\* Every result a call returns has a score and no embedding, and what a call
\* returns is what search_local_knowledge makes of the base as loaded and of
\* the query of that call alone, whatever the other thread did before or
\* during the call.
C13_BaseUntouched ==
    /\ knowledge_base = loaded
    /\ \A k \in 1..Len(knowledge_base.documents) :
           DOMAIN knowledge_base.documents[k] = {"source", "chunk_id", "embedding"}
    /\ \A t \in Threads :
           /\ \A j \in 1..Len(req[t].results) :
                  DOMAIN req[t].results[j] = {"source", "chunk_id", "score"}
           /\ req[t].pc = "done" =>
                  req[t].results =
                      SearchReturn(loaded.documents, req[t].query, req[t].top_k,
                                   req[t].fails)

\* C13 witness: after an earlier request was answered, a call has returned
\* two results while the call of the other thread, for another query, has
\* appended its first result and is between the copy of line 86 and the
\* write of line 87 for its second, a document the first call returned too;
\* both stored documents still carry their embeddings.
C13_Witness ==
    \E t, u \in Threads :
        /\ t # u
        /\ answered
        /\ req[t].pc = "done"
        /\ Len(req[t].results) = 2
        /\ req[u].pc = "set"
        /\ req[u].query # req[t].query
        /\ Len(req[u].results) = 1
        /\ \E j \in 1..2 :
               /\ req[t].results[j].source = req[u].doc_copy.dict.source
               /\ req[t].results[j].chunk_id = req[u].doc_copy.dict.chunk_id
        /\ \A k \in 1..Len(knowledge_base.documents) :
               Truthy(knowledge_base.documents[k].embedding)

\* A stored document whose embedding is absent, null or empty
Unembedded(doc) == doc.embedding.kind # "list" \/ doc.embedding.vec = <<>>

\* C14: a chunk without embedding never appears in a search result, for any
\* query and top_k: every result is the copy of an embedded chunk, no more
\* results equal a copy than embedded chunks have it, and a base whose chunks
\* are all unembedded yields no result.
C14_UnembeddedSkipped ==
    spc = "returned" =>
        /\ \A j \in 1..Len(results) :
               Cardinality({l \in 1..Len(results) : results[l] = results[j]})
                   <= Cardinality({k \in Embedded : Copy(k) = results[j]})
        /\ (\A k \in 1..Len(Documents) : Unembedded(Documents[k])) => results = <<>>

\* C14 witness: a successful search that asked for as many results as the base
\* has documents, over a base of an unembedded chunk followed by an embedded
\* one with the same source and chunk_id, got only the embedded one.
C14_Witness ==
    /\ Succeeded
    /\ top_k >= Len(Documents)
    /\ Len(Documents) = 2
    /\ Unembedded(Documents[1])
    /\ Embedded = {2}
    /\ Documents[1].source = Documents[2].source
    /\ Documents[1].chunk_id = Documents[2].chunk_id
    /\ results = <<Copy(2)>>

-----------------------------------------------------------------------------
(* Claims about chunk_text (checked under SpecChunk) *)

NumWords == Len(split(text))
Blank == strip(text) = <<>>

\* C7 as stated: a text of N > chunk_size words with 0 <= overlap < chunk_size
\* yields exactly ceil((N - overlap) / (chunk_size - overlap)) chunks.
C7_CountAsStated ==
    (cpc = "done" /\ NumWords > chunk_size /\ 0 <= overlap /\ overlap < chunk_size)
        => Len(chunks) = CeilDiv(NumWords - overlap, chunk_size - overlap)

\* C7 amended: the window start runs over 0, s, 2s, ... below N with
\* s = chunk_size - overlap, so the text yields exactly ceil(N / s) chunks.
C7_CountByStride ==
    (cpc = "done" /\ NumWords > chunk_size /\ 0 <= overlap /\ overlap < chunk_size)
        => Len(chunks) = CeilDiv(NumWords, chunk_size - overlap)

\* C7 witness: a finished call with a real overlap where the last window lies
\* wholly inside the one before it.
C7_Witness ==
    /\ cpc = "done"
    /\ NumWords > chunk_size
    /\ 0 < overlap /\ overlap < chunk_size
    /\ Len(chunks) = 3
    /\ Len(chunks) > CeilDiv(NumWords - overlap, chunk_size - overlap)

\* C8: chunk_text terminates for every input: while the loop runs, every
\* iteration strictly increases the window start (the stride is >= 1).
C8_IndexIncreases ==
    [][(cpc = "loop" /\ cpc' = "loop") => i' > i]_vars

\* C9 as stated: a non-blank text of at most chunk_size words yields exactly
\* one chunk, equal to the text with leading and trailing whitespace removed.
C9_OneTrimmedChunk ==
    (cpc = "done" /\ ~Blank /\ NumWords <= chunk_size)
        => chunks = <<strip(text)>>

\* C9 amended: a non-blank text of at most chunk_size words yields exactly
\* one chunk, equal to the text as given, its leading and trailing whitespace
\* kept; the chunk is the trimmed text only when there is nothing to trim.
C9_OneVerbatimChunk ==
    (cpc = "done" /\ ~Blank /\ NumWords <= chunk_size)
        => /\ Len(chunks) = 1
           /\ chunks[1] = text
           /\ (chunks[1] = strip(text)) <=>
                  (~IsSpace(text[1]) /\ ~IsSpace(text[Len(text)]))

\* C9 witness: a finished call on a short text with whitespace on both ends.
C9_Witness ==
    /\ cpc = "done"
    /\ ~Blank
    /\ NumWords <= chunk_size
    /\ IsSpace(text[1]) /\ IsSpace(text[Len(text)])
    /\ Len(chunks) = 1

====
